---- MODULE Spec2Model ----
(***************************************************************************)
(* Model of app/tools/football_tools.py: the League Registry, the resolver *)
(* _get_league_id and the tool get_league_standings.                       *)
(*                                                                         *)
(* A Python str is a sequence of text fragments whose concatenation is the *)
(* string: a league name is a sequence of one-character strings (so that   *)
(* str.lower() is computed character by character), a literal is a single  *)
(* fragment, and an f-string is the concatenation (\o) of its parts.       *)
(* An optional int (the result of dict.get) is [some, val].                *)
(***************************************************************************)
EXTENDS Integers, Sequences, FiniteSets, TLC

VARIABLES pc, league_name, season, league_id, request, response, result, calls

vars == <<pc, league_name, season, league_id, request, response, result, calls>>

(***************************************************************************)
(* Bounds of the model.                                                    *)
(***************************************************************************)
\* case variants of a registry key: any subset of its first MaxCasePos characters uppercased
MaxCasePos == 2
\* team entries per standings group
MaxTeams == 2
\* standings groups that follow the first one
MaxOtherGroups == 1
\* response elements that follow the first one
MaxOtherItems == 1

BoundedSeq(S, n) == UNION {[1..k -> S] : k \in 0..n}

Min(a, b) == IF a < b THEN a ELSE b

(***************************************************************************)
(* str.lower() and str.upper() on the ASCII letters.                       *)
(***************************************************************************)
LowerAlpha ==
  <<"a","b","c","d","e","f","g","h","i","j","k","l","m",
    "n","o","p","q","r","s","t","u","v","w","x","y","z">>

UpperAlpha ==
  <<"A","B","C","D","E","F","G","H","I","J","K","L","M",
    "N","O","P","Q","R","S","T","U","V","W","X","Y","Z">>

lower_char(c) ==
  IF \E i \in 1..26 : UpperAlpha[i] = c
  THEN LowerAlpha[CHOOSE i \in 1..26 : UpperAlpha[i] = c]
  ELSE c

upper_char(c) ==
  IF \E i \in 1..26 : LowerAlpha[i] = c
  THEN UpperAlpha[CHOOSE i \in 1..26 : LowerAlpha[i] = c]
  ELSE c

lower(s) == [i \in 1..Len(s) |-> lower_char(s[i])]

upper(s) == [i \in 1..Len(s) |-> upper_char(s[i])]

\* str.title(): the first character of each word uppercased
title(s) ==
  [i \in 1..Len(s) |-> IF i = 1 \/ s[i-1] = " " THEN upper_char(s[i]) ELSE s[i]]

(***************************************************************************)
(* Configuration and the League Registry.                                  *)
(***************************************************************************)
BASE_URL == "https://v3.football.api-sports.io"

API_FOOTBALL_KEY == "<API_FOOTBALL_KEY>"

\* the dict in insertion order, one [name, id] per item
LEAGUE_MAP ==
  << [name |-> <<"p","r","e","m","i","e","r"," ","l","e","a","g","u","e">>, id |-> 39],
     [name |-> <<"l","a"," ","l","i","g","a">>, id |-> 140],
     [name |-> <<"b","u","n","d","e","s","l","i","g","a">>, id |-> 78],
     [name |-> <<"s","e","r","i","e"," ","a">>, id |-> 135],
     [name |-> <<"l","i","g","u","e"," ","1">>, id |-> 61],
     [name |-> <<"m","l","s">>, id |-> 253],
     [name |-> <<"c","h","a","m","p","i","o","n","s"," ","l","e","a","g","u","e">>, id |-> 2] >>

None == [some |-> FALSE, val |-> 0]

Some(n) == [some |-> TRUE, val |-> n]

\* dict.get(key): the value, or None
dict_get(d, key) ==
  IF \E i \in DOMAIN d : d[i].name = key
  THEN Some(d[CHOOSE i \in DOMAIN d : d[i].name = key].id)
  ELSE None

\* the lookup of the name as passed, without lowercasing it
get_league_id_no_lower(name) == dict_get(LEAGUE_MAP, name)

_get_league_id(name) == dict_get(LEAGUE_MAP, lower(name))

\* the "if not league_id" test never taking the early return
AlwaysTruthy(o) == TRUE

\* truth value of an optional int: None and 0 are falsy
Truthy(o) == o.some /\ o.val # 0

(***************************************************************************)
(* Values returned or raised by get_league_standings.  Every outcome is a  *)
(* record of the same shape: kind is "none" (nothing yet), "dict" (the     *)
(* {"error": ...} dict), "list" (the formatted standings) or "raise" (an   *)
(* exception of type exc, with text, leaves the function).                 *)
(***************************************************************************)
NoResult == [kind |-> "none", error |-> <<>>, records |-> <<>>, exc |-> "", text |-> <<>>]

ErrorResult(msg) ==
  [kind |-> "dict", error |-> msg, records |-> <<>>, exc |-> "", text |-> <<>>]

ListResult(recs) ==
  [kind |-> "list", error |-> <<>>, records |-> recs, exc |-> "", text |-> <<>>]

Raise(type, txt) ==
  [kind |-> "raise", error |-> <<>>, records |-> <<>>, exc |-> type, text |-> txt]

\* the subclasses of requests.exceptions.RequestException among the exception types
RequestExceptions ==
  {"ConnectionError", "Timeout", "TooManyRedirects", "HTTPError", "JSONDecodeError"}

\* the message built from the lowercased name instead of the name as passed
NotFoundMessageLowered(name) ==
  <<"Could not find a league with the name '">> \o lower(name) \o <<"'.">>

NotFoundMessage(name) ==
  <<"Could not find a league with the name '">> \o name \o <<"'.">>

NoStandingsMessage == <<"No standings found for this league and season.">>

ApiFailedMessage(e) == <<"API request failed: ">> \o e

(***************************************************************************)
(* The request.                                                            *)
(***************************************************************************)
Headers ==
  [x_rapidapi_key |-> API_FOOTBALL_KEY, x_rapidapi_host |-> "v3.football.api-sports.io"]

\* the season normalised like the league name
ParamsSeasonLowered(id, s) == [league |-> id, season |-> lower(s)]

Params(id, s) == [league |-> id, season |-> s]

Endpoint == <<BASE_URL, "/standings">>

NoRequest ==
  [method |-> "", url |-> <<>>, headers |-> [x_rapidapi_key |-> "", x_rapidapi_host |-> ""],
   params |-> [league |-> 0, season |-> <<>>]]

GetRequest(id, s) ==
  [method |-> "GET", url |-> Endpoint, headers |-> Headers, params |-> Params(id, s)]

(***************************************************************************)
(* The provider's answer.  A team entry lists in "absent" the keys it      *)
(* lacks; reading an absent key raises KeyError.  A response element       *)
(* (response[i]) has or lacks "league" and league["standings"]; standings  *)
(* is a list of groups, a group a list of team entries.  The parsed body   *)
(* (data) is a JSON object or not, and its "response" is absent, null or a *)
(* list of elements.                                                       *)
(***************************************************************************)
Team(rank, name, points, played, win, draw, lose, absent) ==
  [rank |-> rank, name |-> name, points |-> points, played |-> played,
   win |-> win, draw |-> draw, lose |-> lose, absent |-> absent]

RealMadrid == Team(1, <<"Real Madrid">>, 90, 38, 29, 3, 6, {})

Barcelona == Team(2, <<"Barcelona">>, 85, 37, 26, 7, 4, {})

\* an entry whose team object has no "name"
Nameless == Team(3, <<>>, 81, 36, 25, 5, 8, {"team.name"})

\* an entry that only groups after the first and elements after the first hold
Atletico == Team(1, <<"Atletico Madrid">>, 76, 35, 24, 4, 7, {})

Teams == {RealMadrid, Barcelona, Nameless}

Groups == BoundedSeq(Teams, MaxTeams)

OtherGroups == {<<Atletico>>}

StandingsLists ==
  {<<>>} \cup {<<g>> \o t : g \in Groups, t \in BoundedSeq(OtherGroups, MaxOtherGroups)}

Element(has_league, has_standings, standings) ==
  [has_league |-> has_league, has_standings |-> has_standings, standings |-> standings]

Elements ==
  {Element(FALSE, FALSE, <<>>), Element(TRUE, FALSE, <<>>)}
    \cup {Element(TRUE, TRUE, st) : st \in StandingsLists}

OtherElements == {Element(TRUE, TRUE, << <<Atletico>> >>)}

ItemLists ==
  {<<>>} \cup {<<e>> \o t : e \in Elements, t \in BoundedSeq(OtherElements, MaxOtherItems)}

Data(is_dict, tag, items) ==
  [is_dict |-> is_dict, response |-> [tag |-> tag, items |-> items]]

Datas ==
  {Data(FALSE, "absent", <<>>), Data(TRUE, "absent", <<>>), Data(TRUE, "null", <<>>)}
    \cup {Data(TRUE, "list", items) : items \in ItemLists}

\* what response.json() does: returns data ("ok") or raises
\* requests.exceptions.JSONDecodeError, a RequestException
Body(json, data) == [json |-> json, data |-> data]

Bodies ==
  {Body("JSONDecodeError", Data(FALSE, "absent", <<>>))}
    \cup {Body("ok", d) : d \in Datas}

\* bodies tried with the statuses other than 200
SampleBodies ==
  {Body("JSONDecodeError", Data(FALSE, "absent", <<>>)),
   Body("ok", Data(TRUE, "list", <<>>)),
   Body("ok", Data(TRUE, "list", <<Element(TRUE, TRUE, << <<RealMadrid, Barcelona>> >>)>>))}

\* final statuses: 300 is a 3xx that requests does not follow
OtherStatuses == {300, 404, 500}

HttpResponse(status_code, body) == [status_code |-> status_code, body |-> body]

NoResponse == HttpResponse(0, Body("JSONDecodeError", Data(FALSE, "absent", <<>>)))

Responses ==
  {HttpResponse(200, b) : b \in Bodies}
    \cup {HttpResponse(st, b) : st \in OtherStatuses, b \in SampleBodies}

\* exceptions requests.get raises itself, with their text
TransportFailures ==
  {[type |-> "ConnectionError", text |-> <<"Connection refused">>],
   [type |-> "Timeout", text |-> <<"Read timed out">>],
   [type |-> "TooManyRedirects", text |-> <<"Exceeded 30 redirects">>]}

(***************************************************************************)
(* The try block of get_league_standings, statement by statement.  An      *)
(* operator named ...Fault gives the exception its statement raises, or    *)
(* NoResult when the statement completes.                                  *)
(***************************************************************************)
\* Response.raise_for_status(): HTTPError for a 4xx or 5xx status, nothing otherwise
raise_for_status(r) ==
  IF 400 <= r.status_code /\ r.status_code < 500
  THEN Raise("HTTPError", <<"Client Error for url: ">> \o Endpoint)
  ELSE IF 500 <= r.status_code /\ r.status_code < 600
       THEN Raise("HTTPError", <<"Server Error for url: ">> \o Endpoint)
       ELSE NoResult

\* Response.json()
JsonFault(r) ==
  IF r.body.json = "ok" THEN NoResult ELSE Raise(r.body.json, <<"Expecting value">>)

\* the condition of the "if": data.get needs a dict, [0]['league']['standings'] its keys
EmptyCheckFault(data) ==
  IF ~data.is_dict THEN Raise("AttributeError", <<"'list' object has no attribute 'get'">>)
  ELSE IF data.response.tag # "list" \/ data.response.items = <<>> THEN NoResult
  ELSE IF ~data.response.items[1].has_league THEN Raise("KeyError", <<"'league'">>)
  ELSE IF ~data.response.items[1].has_standings THEN Raise("KeyError", <<"'standings'">>)
  ELSE NoResult

\* the condition with its second operand left out
EmptyCheckResponseOnly(data) ==
  data.response.tag # "list" \/ data.response.items = <<>>

EmptyCheck(data) ==
  \/ data.response.tag # "list" \/ data.response.items = <<>>
  \/ data.response.items[1].standings = <<>>

\* data['response'][0]['league']['standings'][0]
ExtractFault(data) ==
  IF data.response.items[1].standings = <<>>
  THEN Raise("IndexError", <<"list index out of range">>)
  ELSE NoResult

ExtractStandings(data) == data.response.items[1].standings[1]

\* wins and losses exchanged
FormatTeamSwapped(team) ==
  [rank |-> team.rank, team |-> team.name, points |-> team.points,
   games_played |-> team.played, wins |-> team.lose, draws |-> team.draw,
   losses |-> team.win]

FormatTeam(team) ==
  [rank |-> team.rank, team |-> team.name, points |-> team.points,
   games_played |-> team.played, wins |-> team.win, draws |-> team.draw,
   losses |-> team.lose]

FormatFault(standings) ==
  IF \E i \in DOMAIN standings : standings[i].absent # {}
  THEN Raise("KeyError", <<"'name'">>)
  ELSE NoResult

\* the comprehension run over the group backwards
FormatStandingsReversed(standings) ==
  [i \in 1..Len(standings) |-> FormatTeam(standings[Len(standings) + 1 - i])]

FormatStandings(standings) ==
  [i \in 1..Len(standings) |-> FormatTeam(standings[i])]

\* the statements after response.json(): a return or a raise
HandleData(data) ==
  IF EmptyCheckFault(data).kind = "raise" THEN EmptyCheckFault(data)
  ELSE IF EmptyCheck(data) THEN ErrorResult(NoStandingsMessage)
  ELSE IF ExtractFault(data).kind = "raise" THEN ExtractFault(data)
  ELSE IF FormatFault(ExtractStandings(data)).kind = "raise"
       THEN FormatFault(ExtractStandings(data))
       ELSE ListResult(FormatStandings(ExtractStandings(data)))

\* the statements of the try block after requests.get returned r
TryBlock(r) ==
  IF raise_for_status(r).kind = "raise" THEN raise_for_status(r)
  ELSE IF JsonFault(r).kind = "raise" THEN JsonFault(r)
  ELSE HandleData(r.body.data)

\* the except clause: a RequestException becomes an error dict, others propagate
Except(outcome) ==
  IF outcome.kind = "raise" /\ outcome.exc \in RequestExceptions
  THEN ErrorResult(ApiFailedMessage(outcome.text))
  ELSE outcome

(***************************************************************************)
(* Inputs of the tool.                                                     *)
(***************************************************************************)
CaseVariants(k) ==
  {[i \in 1..Len(k) |-> IF i \in U THEN upper_char(k[i]) ELSE k[i]] :
      U \in SUBSET (1..Min(MaxCasePos, Len(k)))}
    \cup {upper(k), title(k)}

KnownNames == UNION {CaseVariants(LEAGUE_MAP[i].name) : i \in DOMAIN LEAGUE_MAP}

UnknownNames ==
  {<<>>,
   <<"S","e","r","i","e"," ","B">>,
   <<"m","l","s"," ">>,
   <<"l","a","l","i","g","a">>,
   <<"p","r","e","m","i","e","r">>}

LeagueNames == KnownNames \cup UnknownNames

Seasons == {<<"2","0","2","4">>, <<"N","o","w">>}

(***************************************************************************)
(* The state machine: one invocation after another.                        *)
(***************************************************************************)
Init ==
  /\ pc = "idle"
  /\ league_name = <<>>
  /\ season = <<>>
  /\ league_id = None
  /\ request = NoRequest
  /\ response = NoResponse
  /\ result = NoResult
  /\ calls = 0

\* the call, up to the early return or to the request being ready
Invoke(name, s) ==
  /\ pc = "idle"
  /\ league_name' = name
  /\ season' = s
  /\ league_id' = _get_league_id(name)
  /\ IF ~Truthy(_get_league_id(name))
     THEN /\ result' = ErrorResult(NotFoundMessage(name))
          /\ pc' = "returned"
          /\ request' = request
     ELSE /\ request' = GetRequest(_get_league_id(name).val, s)
          /\ pc' = "requesting"
          /\ result' = result
  /\ UNCHANGED <<response, calls>>

\* requests.get raises: the except clause returns the error dict
RequestFails(e) ==
  /\ pc = "requesting"
  /\ calls' = calls + 1
  /\ result' = Except(Raise(e.type, e.text))
  /\ pc' = "returned"
  /\ UNCHANGED <<league_name, season, league_id, request, response>>

\* requests.get returns a response
RequestResponds(r) ==
  /\ pc = "requesting"
  /\ calls' = calls + 1
  /\ response' = r
  /\ pc' = "responded"
  /\ UNCHANGED <<league_name, season, league_id, request, result>>

\* the rest of the try block and the except clause
ProcessResponse ==
  /\ pc = "responded"
  /\ result' = Except(TryBlock(response))
  /\ pc' = IF Except(TryBlock(response)).kind = "raise" THEN "raised" ELSE "returned"
  /\ UNCHANGED <<league_name, season, league_id, request, response, calls>>

\* the caller has the value (or the exception); the next call starts afresh
NextInvocation ==
  /\ pc \in {"returned", "raised"}
  /\ pc' = "idle"
  /\ league_name' = <<>>
  /\ season' = <<>>
  /\ league_id' = None
  /\ request' = NoRequest
  /\ response' = NoResponse
  /\ result' = NoResult
  /\ calls' = 0

Next ==
  \/ \E name \in LeagueNames, s \in Seasons : Invoke(name, s)
  \/ \E e \in TransportFailures : RequestFails(e)
  \/ \E r \in Responses : RequestResponds(r)
  \/ ProcessResponse
  \/ NextInvocation

Spec == Init /\ [][Next]_vars

(***************************************************************************)
(* Properties.                                                             *)
(***************************************************************************)
Done == pc \in {"returned", "raised"}

RegistryKeys == {LEAGUE_MAP[i].name : i \in DOMAIN LEAGUE_MAP}

\* s is k with some of its letters in the other case
IsCaseVariant(s, k) ==
  /\ Len(s) = Len(k)
  /\ \A i \in 1..Len(k) :
       \/ s[i] = k[i]
       \/ \E j \in 1..26 : /\ {s[i], k[i]} = {LowerAlpha[j], UpperAlpha[j]}

\* the first standings group of a response whose shape reaches the formatting
FirstGroup(r) == r.body.data.response.items[1].standings[1]

HasFirstGroup(r) ==
  /\ r.body.json = "ok"
  /\ r.body.data.is_dict
  /\ r.body.data.response.tag = "list"
  /\ r.body.data.response.items # <<>>
  /\ r.body.data.response.items[1].has_league
  /\ r.body.data.response.items[1].has_standings
  /\ r.body.data.response.items[1].standings # <<>>

Success(r) == 200 <= r.status_code /\ r.status_code < 300

NonDecreasing(ranks) == \A i \in 1..(Len(ranks) - 1) : ranks[i] <= ranks[i + 1]

\* C1: a league name whose lowercased form is no registry key gets the error
\* dict "Could not find a league with the name '<league_name>'.", with the name
\* as passed, and no HTTP call is issued.
C1_UnknownLeagueNoCall ==
  (pc # "idle" /\ lower(league_name) \notin RegistryKeys) =>
     /\ pc = "returned"
     /\ result.kind = "dict"
     /\ result.error =
          <<"Could not find a league with the name '">> \o league_name \o <<"'.">>
     /\ calls = 0
     /\ request = NoRequest
     /\ response = NoResponse

C1_Witness ==
  /\ pc = "returned"
  /\ league_name = <<"S","e","r","i","e"," ","B">>
  /\ result.kind = "dict"
  /\ calls = 0

\* C2: a returned value is either a non-empty sequence of records or exactly
\* one error dict, never an empty sequence.
C2_NonEmptyListOrError ==
  pc = "returned" =>
     \/ result.kind = "dict" /\ result.error # <<>> /\ result.records = <<>>
     \/ result.kind = "list" /\ result.records # <<>> /\ result.error = <<>>

\* C3: for a known league and a successful response whose first standings
\* group holds N team entries (each with all its keys), the N records are
\* returned in the group's order, the i-th mapped field by field from the i-th
\* entry; no other group or response element contributes.
C3_FirstGroupMapped ==
  (Done /\ Success(response) /\ HasFirstGroup(response)
        /\ \A i \in DOMAIN FirstGroup(response) : FirstGroup(response)[i].absent = {}) =>
     /\ pc = "returned"
     /\ result.kind = "list"
     /\ Len(result.records) = Len(FirstGroup(response))
     /\ \A i \in DOMAIN FirstGroup(response) :
          result.records[i] =
            [rank |-> FirstGroup(response)[i].rank,
             team |-> FirstGroup(response)[i].name,
             points |-> FirstGroup(response)[i].points,
             games_played |-> FirstGroup(response)[i].played,
             wins |-> FirstGroup(response)[i].win,
             draws |-> FirstGroup(response)[i].draw,
             losses |-> FirstGroup(response)[i].lose]

C3_Witness ==
  /\ pc = "returned"
  /\ Success(response)
  /\ HasFirstGroup(response)
  /\ FirstGroup(response) = <<Barcelona, RealMadrid>>
  /\ Len(response.body.data.response.items) = 2
  /\ Len(response.body.data.response.items[1].standings) = 2
  /\ Len(result.records) = 2

\* C4: whenever the request fails (requests.get raises, or the final status
\* is not 2xx) the call returns an error dict whose message starts with
\* "API request failed: " and does not raise.
C4_FailureGivesApiError ==
  (Done /\ calls = 1 /\ ~Success(response)) =>
     /\ pc = "returned"
     /\ result.kind = "dict"
     /\ result.error # <<>>
     /\ Head(result.error) = "API request failed: "

\* C5: on a 2xx response whose body is a JSON object, a "response" field that
\* is absent (or null) or empty, or an empty response[0].league.standings,
\* gives exactly the error dict "No standings found for this league and season."
C5_EmptyGivesNoStandings ==
  (Done /\ Success(response) /\ response.body.json = "ok" /\ response.body.data.is_dict
        /\ \/ response.body.data.response.tag \in {"absent", "null"}
           \/ response.body.data.response.items = <<>>
           \/ /\ response.body.data.response.items[1].has_league
              /\ response.body.data.response.items[1].has_standings
              /\ response.body.data.response.items[1].standings = <<>>) =>
     /\ pc = "returned"
     /\ result = ErrorResult(<<"No standings found for this league and season.">>)

C5_Witness ==
  /\ pc = "returned"
  /\ response.status_code = 200
  /\ response.body.json = "ok"
  /\ response.body.data.response.tag = "list"
  /\ response.body.data.response.items # <<>>
  /\ response.body.data.response.items[1].has_standings
  /\ response.body.data.response.items[1].standings = <<>>
  /\ result.kind = "dict"

\* C6: no invocation ends with an exception reaching the caller.
C6_NeverRaises == pc # "raised"

\* C7: for every registry key k and every case variant s of k,
\* _get_league_id(s) is k's ID; for a name that is a case variant of no key it
\* is None (and nothing is raised: the call goes on to its early return).
C7_CaseInsensitiveTotal ==
  pc # "idle" =>
     /\ \A i \in DOMAIN LEAGUE_MAP :
          IsCaseVariant(league_name, LEAGUE_MAP[i].name) =>
             league_id = [some |-> TRUE, val |-> LEAGUE_MAP[i].id]
     /\ (\A i \in DOMAIN LEAGUE_MAP : ~IsCaseVariant(league_name, LEAGUE_MAP[i].name)) =>
          league_id = [some |-> FALSE, val |-> 0] /\ pc = "returned"

C7_Witness ==
  /\ pc = "requesting"
  /\ league_name = <<"P","R","E","M","I","E","R"," ","L","E","A","G","U","E">>
  /\ league_id = [some |-> TRUE, val |-> 39]

\* C8 as stated: every invocation that completes has made exactly one call.
C8_ExactlyOneCall == Done => calls = 1

\* C8 amended: an invocation makes one call when the league name resolves and
\* none when it does not; the call is never repeated.
C8_OneCallIffResolved ==
  /\ calls <= 1
  /\ Done => calls = (IF lower(league_name) \in RegistryKeys THEN 1 ELSE 0)
  /\ (calls = 1 /\ pc # "responded") => Done

C8_Witness ==
  /\ pc = "returned"
  /\ calls = 1
  /\ response = NoResponse
  /\ result.kind = "dict"

\* C9 as stated: the ranks of a returned record sequence are non-decreasing.
C9_RankNonDecreasing ==
  (pc = "returned" /\ result.kind = "list") =>
     NonDecreasing([i \in DOMAIN result.records |-> result.records[i].rank])

\* C9 amended: the ranks of a returned record sequence are those of the
\* provider's first group in the provider's order, hence non-decreasing
\* exactly when the provider's are.
C9_RankOrderAsProvided ==
  (pc = "returned" /\ result.kind = "list") =>
     /\ HasFirstGroup(response)
     /\ [i \in DOMAIN result.records |-> result.records[i].rank]
          = [i \in DOMAIN FirstGroup(response) |-> FirstGroup(response)[i].rank]
     /\ NonDecreasing([i \in DOMAIN result.records |-> result.records[i].rank])
          <=> NonDecreasing([i \in DOMAIN FirstGroup(response) |->
                                FirstGroup(response)[i].rank])

C9_Witness ==
  /\ pc = "returned"
  /\ result.kind = "list"
  /\ Len(result.records) = 2
  /\ result.records[1].rank = 2
  /\ result.records[2].rank = 1

\* C10: for a league name that resolves and any season string, the request
\* is a GET to BASE_URL/standings with league = the registry ID of the
\* lowercased name and season = the season as passed.
C10_RequestAsSpecified ==
  \A i \in DOMAIN LEAGUE_MAP :
     (pc # "idle" /\ lower(league_name) = LEAGUE_MAP[i].name) =>
        /\ request.method = "GET"
        /\ request.url = <<"https://v3.football.api-sports.io", "/standings">>
        /\ request.params = [league |-> LEAGUE_MAP[i].id, season |-> season]

C10_Witness ==
  /\ pc = "responded"
  /\ league_name = <<"L","a"," ","L","i","g","a">>
  /\ season = <<"N","o","w">>
  /\ request.params = [league |-> 140, season |-> <<"N","o","w">>]

====
